---- MODULE Spec2Model ----
(***************************************************************************)
(* Model of src-tauri/src/main.rs: the serial connection commands          *)
(* (connect_serial, disconnect_serial, is_serial_connected), the reader    *)
(* task spawned by connect_serial, save_recording, and the simulator       *)
(* commands (start_simulator, stop_simulator, is_simulator_running,        *)
(* kill_all_simulators).                                                   *)
(*                                                                         *)
(* Text is a sequence of one-character strings.  A device byte is one of   *)
(* the ASCII characters used below, or "L" / "T": the lead and the         *)
(* continuation byte of one two-byte UTF-8 character, which decodes to     *)
(* "E" when the two arrive together and to "?" (U+FFFD) otherwise.         *)
(*                                                                         *)
(* Spec runs overlapping commands beside the reader tasks; SpecSeq issues  *)
(* the commands one at a time (SpecSeqFair: with every thread kept         *)
(* running); SpecFrame opens the device once and feeds it every stream;    *)
(* SpecReconnect issues them one at a time while one frame arrives;        *)
(* SpecLock makes each lock() a step of its own; SpecSave and SpecNorm run *)
(* save_recording and its normalization; SpecSim runs the simulator        *)
(* commands.                                                               *)
(***************************************************************************)
EXTENDS Integers, Sequences, FiniteSets, TLC

\* ------------------------------------------------------------- bounds
\* Concurrent command invocations (threads of the command runtime).
NumCalls == 2
\* Successful device opens in one behaviour (each yields a handle and a task).
MaxOpens == 2
MaxSpawns == 2

\* Samples in one save_recording call.
MaxSamples == 2
\* Largest raw value of a sample with all channels alike.
MaxRaw == 2
\* How many entries a calibration sequence may fall short of the channels.
ShortBy == 1
\* Raw and calibration values of the single-channel study lie in -MaxCal..MaxCal.
MaxCal == 7
\* The reads of a reader task that returned bytes are counted up to this many.
ManyReads == 2

\* -------------------------------------------------- program constants
\* vec![0; 1024]: the most bytes one read returns.
ReadCap == 1024
\* parts.len() == 6
ExpectedFields == 6
\* for i in 0..5
NumCh == 5

\* -------------------------------------------------------------- text
Whitespace == {" ", "\r", "\t"}
Digits == {"0", "1", "2", "3", "4", "5", "6", "7", "8", "9"}

Min(a, b) == IF a < b THEN a ELSE b

\* String::from_utf8_lossy on one read's bytes: a lead byte followed by its
\* continuation byte is one character; a lead byte without it, or a
\* continuation byte alone, becomes the replacement character.
RECURSIVE from_utf8_lossy(_)
from_utf8_lossy(bytes) ==
    IF bytes = <<>> THEN <<>>
    ELSE IF Head(bytes) = "L" /\ Len(bytes) >= 2 /\ bytes[2] = "T"
         THEN <<"E">> \o from_utf8_lossy(SubSeq(bytes, 3, Len(bytes)))
    ELSE IF Head(bytes) \in {"L", "T"}
         THEN <<"?">> \o from_utf8_lossy(Tail(bytes))
    ELSE <<Head(bytes)>> \o from_utf8_lossy(Tail(bytes))

\* buffer.find('\n'): the index of the first line feed, 0 for None.
RECURSIVE find_newline(_)
find_newline(s) ==
    IF s = <<>> THEN 0
    ELSE IF Head(s) = "\n" THEN 1
    ELSE LET r == find_newline(Tail(s)) IN IF r = 0 THEN 0 ELSE r + 1

RECURSIVE trim_start(_)
trim_start(s) ==
    IF s # <<>> /\ Head(s) \in Whitespace THEN trim_start(Tail(s)) ELSE s

RECURSIVE trim_end(_)
trim_end(s) ==
    IF s # <<>> /\ s[Len(s)] \in Whitespace
    THEN trim_end(SubSeq(s, 1, Len(s) - 1)) ELSE s

\* str::trim
trim(s) == trim_end(trim_start(s))

\* line.split(','): the fields, one more than the commas.
RECURSIVE split_comma(_)
split_comma(s) ==
    LET RECURSIVE upto(_)
        upto(t) == IF t = <<>> \/ Head(t) = "," THEN 0 ELSE 1 + upto(Tail(t))
        k == upto(s)
    IN  IF k = Len(s) THEN <<s>>
        ELSE <<SubSeq(s, 1, k)>> \o split_comma(SubSeq(s, k + 2, Len(s)))

\* Mutants of the frame validity check: the five-field protocol variant, and a
\* check that lets longer lines through.
FrameAccepted_FiveFields(line) == Len(split_comma(line)) = 5

FrameAccepted_AtLeast(line) == Len(split_comma(line)) >= ExpectedFields

\* The frame validity check of the reader task.
FrameAccepted(line) == Len(split_comma(line)) = ExpectedFields

\* The `while let Some(newline_pos) = buffer.find('\n')` loop: the buffer left
\* and the lines emitted as "sensor-data", in order.
RECURSIVE process_lines(_, _)
process_lines(buf, out) ==
    LET pos == find_newline(buf) IN
    IF pos = 0 THEN [buffer |-> buf, emitted |-> out]
    ELSE LET line == trim(SubSeq(buf, 1, pos - 1))
             rest == SubSeq(buf, pos + 1, Len(buf))
         IN  process_lines(rest,
                 IF line # <<>> /\ FrameAccepted(line)
                 THEN Append(out, line) ELSE out)

\* ------------------------------------------------------- device input
\* What the device may send.
Frame6 == <<"1", ",", "2", ",", "3", ",", "4", ",", "5", ",", "6", "\n">>
Frame5 == <<"1", ",", "2", ",", "3", ",", "4", ",", "5", "\n">>
Frame6NonInt == <<"1", ",", "x", ",", ",", "4", ",", "5", ",", "6", "\n">>
Frame6Padded == <<"\n", " ", "7", ",", "2", ",", "3", ",", "4", ",", "5", ",", "6", "\r", "\n">>
Frame6Utf8 == <<"L", "T", ",", "2", ",", "3", ",", "4", ",", "5", ",", "6", "\n", "9">>
Frame7 == <<"1", ",", "2", ",", "3", ",", "4", ",", "5", ",", "6", ",", "7", "\n">>
Streams == {Frame6, Frame5, Frame6NonInt, Frame6Padded, Frame6Utf8, Frame7}
\* The shortest accepted frame (six empty fields) and a one-field line.
FrameEmptyFields == <<",", ",", ",", ",", ",", "\n">>
ShortStreams == {FrameEmptyFields, <<"x", "\n", ",">>}
TinyStreams == {<<"x", "\n">>}

\* -------------------------------------------------------------- state
Calls == 1..NumCalls
Workers == 1..MaxOpens
None == 0
\* No save_recording call, no channel, no file, no value.
NoArgs == [samples |-> <<>>, baseline |-> <<>>, maxbend |-> <<>>]
NoChan == [raw |-> 0, baseline |-> 0, maxbend |-> 0]
Absent == [exists |-> FALSE, header |-> FALSE, rows |-> <<>>]
NoValue == 0 - 1

VARIABLES
    port,          \* SerialState.port: None or the handle stored
    is_connected,  \* SerialState.is_connected
    portLock,      \* the holder of the port mutex, or None
    flagLock,      \* the holder of the is_connected mutex, or None
    opened,        \* handles opened so far
    dev,           \* the bytes the device has yet to deliver
    cpc,           \* per invocation: where it is in its command
    cres,          \* per invocation: the result of its last command
    chandle,       \* per connect_serial invocation: the handle it opened
    wpc,           \* per reader task: where it is in its loop
    buffer,        \* per reader task: its line-accumulation buffer
    received,      \* per reader task: all bytes its reads have returned
    nreads,        \* history: how many reads of a reader task returned bytes, up to ManyReads
    decoded,       \* per reader task: all text it has appended to its buffer
    samples,       \* per reader task: the "sensor-data" payloads it emitted
    errors,        \* per reader task: the "serial-error" events it emitted
    wstop,         \* per reader task: why it left its loop
    released,      \* history: the handles disconnect_serial has taken out of the state
    orphaned,      \* history: the reader tasks running when a disconnect_serial returned
    buffer_from,   \* history, per reader task: the handles its buffered bytes were read from
    samples_from,  \* history, per reader task: for each payload, the handles its bytes were read from
    args,          \* save_recording: its arguments
    file,          \* save_recording: the file at the target path, or Absent
    result,        \* save_recording: "idle", "running", or how the call ended
    chan,          \* one channel's raw value, baseline and max bend
    norm_out,      \* that channel's normalized value as written, in thousandths
    io,            \* save_recording: the I/O failure the call met
    process,       \* SimulatorState.process: the tracked child, or None
    processLock,   \* who holds the mutex of process, or None
    spc,           \* per simulator invocation: where it is in its command
    sres,          \* per simulator invocation: what its last command returned
    child,         \* per start_simulator invocation: the child it has spawned
    spawned,       \* how many children Command::spawn has started so far
    running        \* the children that run: spawned, not killed since

serialVars == <<port, is_connected, portLock, flagLock, opened, dev, cpc, cres,
                chandle, wpc, buffer, received, nreads, decoded, samples, errors,
                wstop,
                released, orphaned, buffer_from, samples_from>>
recVars == <<args, file, result, chan, norm_out, io>>
simVars == <<process, processLock, spc, sres, child, spawned, running>>
vars == <<serialVars, recVars, simVars>>

callVars == <<cpc, cres, chandle>>
taskVars == <<wpc, buffer, received, nreads, decoded, samples, errors, wstop>>
histVars == <<released, orphaned>>
srcVars == <<buffer_from, samples_from>>

\* Who holds a mutex: reader task w is w, invocation c is Caller(c).  A step
\* that locks a mutex, runs its one statement and drops the guard needs the
\* mutex free, or already taken by the one who runs the step (LockFlag,
\* LockPort and WorkerLockFlag below are lock() as a step of its own).
Caller(c) == 0 - c

\* A reader task that was spawned and has not left its loop.
Alive(w) == wpc[w] \in {"check", "lock", "read", "sleep"}

\* main: the state handed to .manage(), no invocation, no task.
InitSerial ==
    /\ port = None
    /\ is_connected = FALSE
    /\ portLock = None
    /\ flagLock = None
    /\ opened = 0
    /\ cpc = [c \in Calls |-> "idle"]
    /\ cres = [c \in Calls |-> "none"]
    /\ chandle = [c \in Calls |-> None]
    /\ wpc = [w \in Workers |-> "unborn"]
    /\ buffer = [w \in Workers |-> <<>>]
    /\ received = [w \in Workers |-> <<>>]
    /\ nreads = [w \in Workers |-> 0]
    /\ decoded = [w \in Workers |-> <<>>]
    /\ samples = [w \in Workers |-> <<>>]
    /\ errors = [w \in Workers |-> 0]
    /\ wstop = [w \in Workers |-> "none"]
    /\ buffer_from = [w \in Workers |-> {}]
    /\ samples_from = [w \in Workers |-> <<>>]
    /\ process = None
    /\ processLock = None
    /\ spc = [c \in Calls |-> "idle"]
    /\ sres = [c \in Calls |-> "none"]
    /\ child = [c \in Calls |-> None]
    /\ spawned = 0
    /\ running = {}
    /\ released = {}
    /\ orphaned = {}

\* No save_recording call and no channel under study.
NoRecording ==
    /\ args = NoArgs
    /\ file = Absent
    /\ result = "idle"
    /\ chan = NoChan
    /\ norm_out = NoValue
    /\ io = "none"

\* The device is about to send one of the short streams.
Init == \E s \in ShortStreams : InitSerial /\ dev = s /\ NoRecording

\* ----------------------------------------------------- connect_serial
\* The check finds a connection open: Err("Already connected to a port").
ConnectRejected(c) ==
    /\ cpc[c] = "idle"
    /\ flagLock \in {None, Caller(c)}
    /\ is_connected
    /\ cres' = [cres EXCEPT ![c] = "AlreadyConnected"]
    /\ chandle' = [chandle EXCEPT ![c] = None]
    /\ flagLock' = None
    /\ UNCHANGED <<recVars, simVars, histVars, srcVars, port, is_connected, portLock, opened, dev, cpc, taskVars>>

\* The check passes and the lock on the flag is dropped.
ConnectCheck(c) ==
    /\ cpc[c] = "idle"
    /\ flagLock \in {None, Caller(c)}
    /\ ~is_connected
    /\ cpc' = [cpc EXCEPT ![c] = "open"]
    /\ cres' = [cres EXCEPT ![c] = "none"]
    /\ chandle' = [chandle EXCEPT ![c] = None]
    /\ flagLock' = None
    /\ UNCHANGED <<recVars, simVars, histVars, srcVars, port, is_connected, portLock, opened, dev, taskVars>>

\* Mutant: the flag is set before the open is known to have succeeded.
ConnectOpenFail_Marks(c) ==
    /\ cpc[c] = "open"
    /\ cpc' = [cpc EXCEPT ![c] = "idle"]
    /\ cres' = [cres EXCEPT ![c] = "DeviceOpenError"]
    /\ is_connected' = TRUE
    /\ UNCHANGED <<recVars, simVars, histVars, srcVars, flagLock, port, portLock, opened, dev, chandle, taskVars>>

\* serialport::new(..).open() fails: the `?` returns the error.
ConnectOpenFail(c) ==
    /\ cpc[c] = "open"
    /\ cpc' = [cpc EXCEPT ![c] = "idle"]
    /\ cres' = [cres EXCEPT ![c] = "DeviceOpenError"]
    /\ UNCHANGED <<recVars, simVars, histVars, srcVars, flagLock, port, is_connected, portLock, opened, dev, chandle, taskVars>>

\* serialport::new(..).open() succeeds: a new handle.
ConnectOpen(c) ==
    /\ cpc[c] = "open"
    /\ opened < MaxOpens
    /\ opened' = opened + 1
    /\ chandle' = [chandle EXCEPT ![c] = opened + 1]
    /\ cpc' = [cpc EXCEPT ![c] = "store"]
    /\ UNCHANGED <<recVars, simVars, histVars, srcVars, flagLock, port, is_connected, portLock, dev, cres, taskVars>>

\* Mutant: the guard on the port mutex is not dropped after the store, so
\* that it lives to the end of the command.
ConnectStore_KeepsGuard(c) ==
    /\ cpc[c] = "store"
    /\ portLock \in {None, Caller(c)}
    /\ port' = chandle[c]
    /\ cpc' = [cpc EXCEPT ![c] = "mark"]
    /\ portLock' = Caller(c)
    /\ UNCHANGED <<recVars, simVars, histVars, srcVars, flagLock, is_connected, opened, dev, cres, chandle, taskVars>>

\* *port_lock = Some(port), under the port mutex.
ConnectStore(c) ==
    /\ cpc[c] = "store"
    /\ portLock \in {None, Caller(c)}
    /\ port' = chandle[c]
    /\ cpc' = [cpc EXCEPT ![c] = "mark"]
    /\ portLock' = None
    /\ UNCHANGED <<recVars, simVars, histVars, srcVars, flagLock, is_connected, opened, dev, cres, chandle, taskVars>>

\* *is_connected = true, under the flag mutex.
ConnectMark(c) ==
    /\ cpc[c] = "mark"
    /\ flagLock \in {None, Caller(c)}
    /\ is_connected' = TRUE
    /\ cpc' = [cpc EXCEPT ![c] = "spawn"]
    /\ flagLock' = None
    /\ UNCHANGED <<recVars, simVars, histVars, srcVars, port, portLock, opened, dev, cres, chandle, taskVars>>

\* tokio::spawn of the reader task with an empty buffer, then Ok(()).  The task
\* of the handle this invocation opened is the one spawned.
ConnectSpawn(c) ==
    /\ cpc[c] = "spawn"
    /\ LET w == chandle[c] IN
         /\ wpc' = [wpc EXCEPT ![w] = "check"]
         /\ buffer' = [buffer EXCEPT ![w] = <<>>]
    /\ cpc' = [cpc EXCEPT ![c] = "idle"]
    /\ cres' = [cres EXCEPT ![c] = "ConnectOk"]
    /\ chandle' = [chandle EXCEPT ![c] = None]
    /\ UNCHANGED <<recVars, simVars, histVars, srcVars, flagLock, port, is_connected, portLock, opened, dev,
                   received, nreads, decoded, samples, errors, wstop>>

\* -------------------------------------------------- disconnect_serial
\* *is_connected = false, under the flag mutex.
DisconnectFlag(c) ==
    /\ cpc[c] = "idle"
    /\ flagLock \in {None, Caller(c)}
    /\ is_connected' = FALSE
    /\ cpc' = [cpc EXCEPT ![c] = "release"]
    /\ cres' = [cres EXCEPT ![c] = "none"]
    /\ chandle' = [chandle EXCEPT ![c] = None]
    /\ flagLock' = None
    /\ UNCHANGED <<recVars, simVars, histVars, srcVars, port, portLock, opened, dev, taskVars>>

\* Mutant: the handle is left in place.
DisconnectPort_KeepsHandle(c) ==
    /\ cpc[c] = "release"
    /\ portLock \in {None, Caller(c)}
    /\ cpc' = [cpc EXCEPT ![c] = "idle"]
    /\ cres' = [cres EXCEPT ![c] = "DisconnectOk"]
    /\ portLock' = None
    /\ orphaned' = orphaned \cup {w \in Workers : Alive(w)}
    /\ UNCHANGED <<recVars, simVars, released, srcVars, flagLock, port, is_connected, opened, dev, chandle, taskVars>>

\* *port_lock = None, under the port mutex, then Ok(()).
DisconnectPort(c) ==
    /\ cpc[c] = "release"
    /\ portLock \in {None, Caller(c)}
    /\ port' = None
    /\ cpc' = [cpc EXCEPT ![c] = "idle"]
    /\ cres' = [cres EXCEPT ![c] = "DisconnectOk"]
    /\ portLock' = None
    /\ released' = released \cup ({port} \ {None})
    /\ orphaned' = orphaned \cup {w \in Workers : Alive(w)}
    /\ UNCHANGED <<recVars, simVars, srcVars, flagLock, is_connected, opened, dev, chandle, taskVars>>

\* ------------------------------------------------ is_serial_connected
\* Ok(*is_connected): what the command returns in the current state.
is_serial_connected == is_connected

\* -------------------------------------------------------- reader task
\* The top of the loop: break when the flag is false.
WorkerCheck(w) ==
    /\ wpc[w] = "check"
    /\ flagLock \in {None, w}
    /\ IF is_connected
       THEN /\ wpc' = [wpc EXCEPT ![w] = "lock"]
            /\ UNCHANGED wstop
       ELSE /\ wpc' = [wpc EXCEPT ![w] = "done"]
            /\ wstop' = [wstop EXCEPT ![w] = "disconnected"]
    /\ flagLock' = None
    /\ UNCHANGED <<recVars, simVars, histVars, srcVars, port, is_connected, portLock, opened, dev, callVars,
                   buffer, received, nreads, decoded, samples, errors>>

\* port_arc.lock(): the task takes the port mutex.
WorkerLock(w) ==
    /\ wpc[w] = "lock"
    /\ portLock = None
    /\ portLock' = w
    /\ wpc' = [wpc EXCEPT ![w] = "read"]
    /\ UNCHANGED <<recVars, simVars, histVars, srcVars, flagLock, port, is_connected, opened, dev, callVars,
                   buffer, received, nreads, decoded, samples, errors, wstop>>

\* `if let Some(port)` finds no handle: nothing is read.
WorkerReadAbsent(w) ==
    /\ wpc[w] = "read"
    /\ port = None
    /\ portLock' = None
    /\ wpc' = [wpc EXCEPT ![w] = "sleep"]
    /\ UNCHANGED <<recVars, simVars, histVars, srcVars, flagLock, port, is_connected, opened, dev, callVars,
                   buffer, received, nreads, decoded, samples, errors, wstop>>

\* Mutant: the buffer is not kept from one read to the next; each read's text

\* History of where bytes came from.  The task's buffer holds bytes read
\* through the handles `from`; one more read through handle h has made it
\* `text`.  The first complete line of text is made of the buffered bytes and
\* of bytes of this read, every later line and the part left after the last
\* line feed of bytes of this read alone.
left_from(from, h, text) ==
    IF find_newline(text) = 0 THEN from \cup {h}
    ELSE IF process_lines(text, <<>>).buffer = <<>> THEN {} ELSE {h}

\* For each payload the `while let` loop emits from text, in order, the
\* handles its line was read through.
emitted_from(from, h, text) ==
    LET pos == find_newline(text)
        line == trim(SubSeq(text, 1, pos - 1))
        first == pos # 0 /\ line # <<>> /\ FrameAccepted(line)
        n == Len(process_lines(text, <<>>).emitted)
    IN  [i \in 1..n |-> IF i = 1 /\ first THEN from \cup {h} ELSE {h}]

\* is processed on its own.
WorkerReadData_ForgetsPartial(w) ==
    /\ wpc[w] = "read"
    /\ port # None
    /\ \E n \in 1..Min(Len(dev), ReadCap) :
         LET data == from_utf8_lossy(SubSeq(dev, 1, n))
             r == process_lines(data, <<>>)
         IN  /\ dev' = SubSeq(dev, n + 1, Len(dev))
             /\ buffer' = [buffer EXCEPT ![w] = r.buffer]
             /\ received' = [received EXCEPT ![w] = received[w] \o SubSeq(dev, 1, n)]
             /\ nreads' = [nreads EXCEPT ![w] = Min(nreads[w] + 1, ManyReads)]
             /\ decoded' = [decoded EXCEPT ![w] = decoded[w] \o data]
             /\ samples' = [samples EXCEPT ![w] = samples[w] \o r.emitted]
             /\ buffer_from' = [buffer_from EXCEPT ![w] =
                                   left_from({}, port, data)]
             /\ samples_from' = [samples_from EXCEPT ![w] =
                                    samples_from[w] \o emitted_from({}, port, data)]
    /\ portLock' = None
    /\ wpc' = [wpc EXCEPT ![w] = "sleep"]
    /\ UNCHANGED <<recVars, simVars, histVars, flagLock, port, is_connected, opened, callVars,
                   errors, wstop>>

\* port.read returns Ok(n), n > 0: decode, append, emit the complete lines.
WorkerReadData(w) ==
    /\ wpc[w] = "read"
    /\ port # None
    /\ \E n \in 1..Min(Len(dev), ReadCap) :
         LET data == from_utf8_lossy(SubSeq(dev, 1, n))
             r == process_lines(buffer[w] \o data, <<>>)
         IN  /\ dev' = SubSeq(dev, n + 1, Len(dev))
             /\ buffer' = [buffer EXCEPT ![w] = r.buffer]
             /\ received' = [received EXCEPT ![w] = received[w] \o SubSeq(dev, 1, n)]
             /\ nreads' = [nreads EXCEPT ![w] = Min(nreads[w] + 1, ManyReads)]
             /\ decoded' = [decoded EXCEPT ![w] = decoded[w] \o data]
             /\ samples' = [samples EXCEPT ![w] = samples[w] \o r.emitted]
             /\ buffer_from' = [buffer_from EXCEPT ![w] =
                                   left_from(buffer_from[w], port, buffer[w] \o data)]
             /\ samples_from' = [samples_from EXCEPT ![w] =
                                    samples_from[w] \o
                                    emitted_from(buffer_from[w], port, buffer[w] \o data)]
    /\ portLock' = None
    /\ wpc' = [wpc EXCEPT ![w] = "sleep"]
    /\ UNCHANGED <<recVars, simVars, histVars, flagLock, port, is_connected, opened, callVars, errors, wstop>>

\* Mutant: a timeout is taken for a failure; the task drops what it has
\* buffered and leaves its loop.
WorkerReadTimeout_GivesUp(w) ==
    /\ wpc[w] = "read"
    /\ port # None
    /\ portLock' = None
    /\ buffer' = [buffer EXCEPT ![w] = <<>>]
    /\ wpc' = [wpc EXCEPT ![w] = "done"]
    /\ UNCHANGED <<recVars, simVars, histVars, srcVars, flagLock, port, is_connected, opened, dev, callVars,
                   received, nreads, decoded, samples, errors, wstop>>

\* Mutant: the guard on the port mutex lives to the end of the iteration, so
\* that the mutex is held across the sleep.
WorkerReadTimeout_KeepsGuard(w) ==
    /\ wpc[w] = "read"
    /\ port # None
    /\ wpc' = [wpc EXCEPT ![w] = "sleep"]
    /\ UNCHANGED <<recVars, simVars, histVars, srcVars, flagLock, portLock, port, is_connected, opened,
                   dev, callVars, buffer, received, nreads, decoded, samples, errors, wstop>>

\* port.read returns Ok(0) or Err(TimedOut): nothing to do.
WorkerReadTimeout(w) ==
    /\ wpc[w] = "read"
    /\ port # None
    /\ portLock' = None
    /\ wpc' = [wpc EXCEPT ![w] = "sleep"]
    /\ UNCHANGED <<recVars, simVars, histVars, srcVars, flagLock, port, is_connected, opened, dev, callVars,
                   buffer, received, nreads, decoded, samples, errors, wstop>>

\* Mutant: the error arm has no `break`; the task goes on to its sleep.
WorkerReadError_Continues(w) ==
    /\ wpc[w] = "read"
    /\ port # None
    /\ errors' = [errors EXCEPT ![w] = errors[w] + 1]
    /\ portLock' = None
    /\ wpc' = [wpc EXCEPT ![w] = "sleep"]
    /\ UNCHANGED <<recVars, simVars, histVars, srcVars, flagLock, port, is_connected, opened, dev, callVars,
                   buffer, received, nreads, decoded, samples, wstop>>

\* port.read returns another error: emit "serial-error" and break.
WorkerReadError(w) ==
    /\ wpc[w] = "read"
    /\ port # None
    /\ errors' = [errors EXCEPT ![w] = errors[w] + 1]
    /\ wstop' = [wstop EXCEPT ![w] = "error"]
    /\ portLock' = None
    /\ wpc' = [wpc EXCEPT ![w] = "done"]
    /\ UNCHANGED <<recVars, simVars, histVars, srcVars, flagLock, port, is_connected, opened, dev, callVars,
                   buffer, received, nreads, decoded, samples>>

\* tokio::time::sleep(10 ms), then the next iteration.
WorkerSleep(w) ==
    /\ wpc[w] = "sleep"
    /\ wpc' = [wpc EXCEPT ![w] = "check"]
    /\ UNCHANGED <<recVars, simVars, histVars, srcVars, flagLock, port, is_connected, portLock, opened, dev, callVars,
                   buffer, received, nreads, decoded, samples, errors, wstop>>

WorkerStep ==
    \E w \in Workers :
        \/ WorkerCheck(w)
        \/ WorkerLock(w)
        \/ WorkerReadAbsent(w)
        \/ WorkerReadData(w)
        \/ WorkerReadTimeout(w)
        \/ WorkerReadError(w)
        \/ WorkerSleep(w)

\* A command past its first step.
CallStep ==
    \E c \in Calls :
        \/ ConnectOpenFail(c)
        \/ ConnectOpen(c)
        \/ ConnectStore(c)
        \/ ConnectMark(c)
        \/ ConnectSpawn(c)
        \/ DisconnectPort(c)

\* The first step of a command.
CallStart(c) ==
    \/ ConnectRejected(c)
    \/ ConnectCheck(c)
    \/ DisconnectFlag(c)

\* Commands arrive on any thread at any time.
Next ==
    \/ \E c \in Calls : CallStart(c)
    \/ CallStep
    \/ WorkerStep

Spec == Init /\ [][Next]_vars

\* The caller awaits each command before it issues the next one; the reader
\* tasks run alongside.
NoCallRunning == \A d \in Calls : cpc[d] = "idle"

NextSeq ==
    \/ NoCallRunning /\ \E c \in Calls : ConnectRejected(c)
    \/ NoCallRunning /\ \E c \in Calls : ConnectCheck(c)
    \/ NoCallRunning /\ \E c \in Calls : DisconnectFlag(c)
    \/ CallStep
    \/ WorkerStep

\* Here the device sends one short line that is no frame.
InitSeq == \E s \in TinyStreams : InitSerial /\ dev = s /\ NoRecording

SpecSeq == InitSeq /\ [][NextSeq]_vars

\* The same with every thread kept running: a command that has begun is run
\* to its return, a spawned reader task is polled until it ends, and a thread
\* waiting for the port mutex gets it (the reader task drops it after each
\* read and sleeps 10 ms before it takes it again).  Nothing makes the caller
\* issue a command.
FairnessSeq ==
    /\ \A c \in Calls : SF_vars(CallStep /\ cpc'[c] # cpc[c])
    /\ \A w \in Workers : SF_vars(WorkerStep /\ wpc'[w] # wpc[w])

SpecSeqFair == InitSeq /\ [][NextSeq]_vars /\ FairnessSeq

\* Commands one after the other while the device sends one frame, which the
\* reads may take in pieces on either side of a disconnect and a connect.
InitReconnect == InitSerial /\ dev = FrameEmptyFields /\ NoRecording

SpecReconnect == InitReconnect /\ [][NextSeq]_vars

\* One connection: the device is opened at most once and sends any of the
\* streams; commands are issued one after the other.
InitFrame == \E s \in Streams : InitSerial /\ dev = s /\ NoRecording

ConnectOpenFirst(c) == opened = 0 /\ ConnectOpen(c)

NextFrame ==
    \/ NoCallRunning /\ \E c \in Calls : ConnectRejected(c)
    \/ NoCallRunning /\ \E c \in Calls : ConnectCheck(c)
    \/ NoCallRunning /\ \E c \in Calls : DisconnectFlag(c)
    \/ \E c \in Calls : ConnectOpenFail(c)
    \/ \E c \in Calls : ConnectOpenFirst(c)
    \/ \E c \in Calls : ConnectStore(c)
    \/ \E c \in Calls : ConnectMark(c)
    \/ \E c \in Calls : ConnectSpawn(c)
    \/ \E c \in Calls : DisconnectPort(c)
    \/ WorkerStep

SpecFrame == InitFrame /\ [][NextFrame]_vars

\* ------------------------------------------------- the two mutexes
\* state.is_connected.lock() of a command: lines 188, 206, 276 and 290.
LockFlag(c) ==
    /\ cpc[c] \in {"idle", "mark"}
    /\ flagLock = None
    /\ flagLock' = Caller(c)
    /\ UNCHANGED <<recVars, simVars, histVars, srcVars, port, is_connected, portLock, opened, dev,
                   callVars, taskVars>>

\* state.port.lock() of a command: lines 201 and 280.
LockPort(c) ==
    /\ cpc[c] \in {"store", "release"}
    /\ portLock = None
    /\ portLock' = Caller(c)
    /\ UNCHANGED <<recVars, simVars, histVars, srcVars, port, is_connected, flagLock, opened, dev,
                   callVars, taskVars>>

\* is_connected_arc.lock() of the reader task: line 220.
WorkerLockFlag(w) ==
    /\ wpc[w] = "check"
    /\ flagLock = None
    /\ flagLock' = w
    /\ UNCHANGED <<recVars, simVars, histVars, srcVars, port, is_connected, portLock, opened, dev,
                   callVars, taskVars>>

\* is_serial_connected as a command: Ok(*is_connected), the guard dropped on
\* return.
IsSerialConnected(c) ==
    /\ cpc[c] = "idle"
    /\ flagLock \in {None, Caller(c)}
    /\ cres' = [cres EXCEPT ![c] = IF is_serial_connected THEN "True" ELSE "False"]
    /\ flagLock' = None
    /\ UNCHANGED <<recVars, simVars, histVars, srcVars, port, is_connected, portLock, opened, dev,
                   cpc, chandle, taskVars>>

\* An invocation that has begun a command and has not returned from it.
Started(c) == cpc[c] # "idle" \/ flagLock = Caller(c)

\* The steps of invocation c with each lock() a step of its own: a statement
\* under a mutex runs once the invocation holds it.  The device is opened at
\* most once, so that one reader task runs beside the commands.
CallerRun(c) ==
    \/ LockFlag(c)
    \/ LockPort(c)
    \/ flagLock = Caller(c) /\ ConnectRejected(c)
    \/ flagLock = Caller(c) /\ ConnectCheck(c)
    \/ flagLock = Caller(c) /\ ConnectMark(c)
    \/ flagLock = Caller(c) /\ DisconnectFlag(c)
    \/ flagLock = Caller(c) /\ IsSerialConnected(c)
    \/ portLock = Caller(c) /\ ConnectStore(c)
    \/ portLock = Caller(c) /\ DisconnectPort(c)
    \/ ConnectOpenFail(c)
    \/ ConnectOpenFirst(c)
    \/ ConnectSpawn(c)

\* The steps of reader task w, likewise.
ReaderRun(w) ==
    \/ WorkerLockFlag(w)
    \/ flagLock = w /\ WorkerCheck(w)
    \/ WorkerLock(w)
    \/ WorkerReadAbsent(w)
    \/ WorkerReadData(w)
    \/ WorkerReadTimeout(w)
    \/ WorkerReadError(w)
    \/ WorkerSleep(w)

NextLock ==
    \/ \E c \in Calls : CallerRun(c)
    \/ \E w \in Workers : ReaderRun(w)

\* The device sends one line feed.
InitLock == InitSerial /\ dev = <<"\n">> /\ NoRecording

\* Every thread keeps running: a reader task that can take a step takes it
\* (tokio polls a spawned task until it ends), and a command that has begun
\* goes on to its return.  A command blocked in lock() gets the mutex when it
\* is free again and again: every holder drops it within its step, and the
\* reader task, the only one to take a mutex in a loop, sleeps 10 ms between
\* two holds.  Nothing makes a caller begin a command.
Fairness ==
    /\ \A c \in Calls : SF_vars(Started(c) /\ CallerRun(c))
    /\ \A w \in Workers : WF_vars(ReaderRun(w))

SpecLock == InitLock /\ [][NextLock]_vars /\ Fairness

\* ----------------------------------------------------- save_recording
\* A normalized value is a quotient of integers, [n, d] with d > 0: the f64
\* operations on i32 values are exact up to the final division, whose rounding
\* is far below the thousandth that is written.

\* Mutant: the clamp is left out.
normalize_Unclamped(raw, baseline, maxbend) ==
    LET range == maxbend - baseline IN
    IF range > 0 THEN [n |-> raw - baseline, d |-> range] ELSE [n |-> 0, d |-> 1]

\* Mutant: the `if range > 0.0` test is left out, so that a zero range divides
\* to an infinity or a NaN (which the clamp turns into 1.0 or 0.0) and a
\* negative range to the quotient of the negated terms.
normalize_NoRangeCheck(raw, baseline, maxbend) ==
    LET range == maxbend - baseline
        n == raw - baseline
        num == IF range < 0 THEN 0 - n ELSE n
        den == IF range < 0 THEN 0 - range ELSE range
    IN  IF den = 0 THEN (IF n > 0 THEN [n |-> 1, d |-> 1] ELSE [n |-> 0, d |-> 1])
        ELSE IF num < 0 THEN [n |-> 0, d |-> 1]
        ELSE IF num > den THEN [n |-> 1, d |-> 1]
        ELSE [n |-> num, d |-> den]

\* The body of `for i in 0..5`: norm[i] stays 0.0 unless range > 0, and is
\* then (raw - baseline) / range, .max(0.0).min(1.0).
normalize(raw, baseline, maxbend) ==
    LET range == maxbend - baseline
        n == raw - baseline
    IN  IF range > 0
        THEN IF n < 0 THEN [n |-> 0, d |-> 1]
             ELSE IF n > range THEN [n |-> 1, d |-> 1]
             ELSE [n |-> n, d |-> range]
        ELSE [n |-> 0, d |-> 1]

\* {:.3}: the value in thousandths, rounded to the nearest, a tie to even.
fmt3(q) ==
    LET t == 1000 * q.n
        f == t \div q.d
        r == 2 * (t % q.d)
    IN  IF r > q.d \/ (r = q.d /\ f % 2 = 1) THEN f + 1 ELSE f

NoRow == [timestamp |-> 0, raw |-> <<>>, norm |-> <<>>, baseline |-> <<>>, maxbend |-> <<>>]

\* One data row, NoRow for a panic: calibration.baseline[i] or calibration.maxbend[i] past the end
\* of its Vec panics before anything of the row is written.
row_of(sample, cal) ==
    IF Len(cal.baseline) < NumCh \/ Len(cal.maxbend) < NumCh
    THEN NoRow
    ELSE [timestamp |-> sample.timestamp,
          raw |-> sample.ch,
          norm |-> [i \in 1..NumCh |->
                      fmt3(normalize(sample.ch[i], cal.baseline[i], cal.maxbend[i]))],
          baseline |-> SubSeq(cal.baseline, 1, NumCh),
          maxbend |-> SubSeq(cal.maxbend, 1, NumCh)]

\* `for sample in samples`: rows are appended until a row panics, a write
\* fails (the fail-th row of the call), or the samples run out.
RECURSIVE write_rows(_, _, _, _)
write_rows(todo, cal, fail, f) ==
    IF todo = <<>> THEN [result |-> "Ok", file |-> f]
    ELSE LET row == row_of(Head(todo), cal) IN
         IF row = NoRow THEN [result |-> "Panic", file |-> f]
         ELSE IF fail.at = "row" /\ fail.row = Len(f.rows) + 1 THEN [result |-> "ErrWriteData", file |-> f]
         ELSE write_rows(Tail(todo), cal, fail,
                         [f EXCEPT !.rows = Append(f.rows, row)])

\* save_recording, with the I/O step that fails: none, the app data directory
\* lookup, create_dir_all, the open, the header write, or the write of one data
\* row.  The target path is new: nothing is there before the call.
save_recording(a, fail) ==
    IF fail.at = "app_dir" THEN [result |-> "ErrAppDir", file |-> Absent]
    ELSE IF fail.at = "create_dir" THEN [result |-> "ErrCreateDir", file |-> Absent]
    ELSE IF fail.at = "open" THEN [result |-> "ErrCreateFile", file |-> Absent]
    ELSE IF fail.at = "header"
         THEN [result |-> "ErrWriteHeader", file |-> [exists |-> TRUE, header |-> FALSE, rows |-> <<>>]]
    ELSE write_rows(a.samples, a, fail, [exists |-> TRUE, header |-> TRUE, rows |-> <<>>])

\* The inputs of a call.
RawVals == 0..MaxRaw
SampleSet ==
    {[timestamp |-> 0, ch |-> [i \in 1..NumCh |-> r]] : r \in RawVals}
      \cup {[timestamp |-> 1, ch |-> [i \in 1..NumCh |-> i - 2]]}
SampleSeqs == UNION {[1..n -> SampleSet] : n \in 0..MaxSamples}
CalSeqs(V) == UNION {[1..n -> V] : n \in (NumCh - ShortBy)..NumCh}
Failures ==
    {[at |-> x, row |-> 0] : x \in {"none", "app_dir", "create_dir", "open", "header"}}
      \cup {[at |-> "row", row |-> k] : k \in 1..MaxSamples}

\* A save_recording call is about to be made with any of the inputs.
InitSave ==
    /\ InitSerial /\ dev = <<>>
    /\ \E ss \in SampleSeqs, b \in CalSeqs({0, 1}), m \in CalSeqs({0, 2}) :
           args = [samples |-> ss, baseline |-> b, maxbend |-> m]
    /\ file = Absent
    /\ result = "running"
    /\ io = "none"
    /\ chan = NoChan
    /\ norm_out = NoValue

\* The call runs to its end.
SaveRecording ==
    /\ result = "running"
    /\ \E fail \in Failures :
         LET r == save_recording(args, fail) IN
           /\ result' = r.result
           /\ file' = r.file
           /\ io' = fail.at
    /\ UNCHANGED <<serialVars, simVars, args, chan, norm_out>>

NextSave == SaveRecording

SpecSave == InitSave /\ [][NextSave]_vars

\* One channel of one sample, with any raw value and calibration in range or
\* those of the documented example.
CalRange == ((0 - MaxCal)..MaxCal) \cup {50, 80, 150}

InitNorm ==
    /\ InitSerial /\ dev = <<>>
    /\ args = NoArgs /\ file = Absent /\ result = "idle" /\ io = "none"
    /\ chan \in [raw : CalRange, baseline : CalRange, maxbend : CalRange]
    /\ norm_out = NoValue

\* The channel is normalized and written.
Normalize ==
    /\ norm_out = NoValue
    /\ norm_out' = fmt3(normalize(chan.raw, chan.baseline, chan.maxbend))
    /\ UNCHANGED <<serialVars, simVars, args, file, result, io, chan>>

NextNorm == Normalize

SpecNorm == InitNorm /\ [][NextNorm]_vars

\* ------------------------------------------------------------ simulator
\* The commands that take the SimulatorState.  Each of start_simulator,
\* stop_simulator and is_simulator_running locks state.process in its first
\* statement and holds the guard to its return; kill_all_simulators takes no
\* state.  The Windows-only blocks (#[cfg(target_os = "windows")]) are left
\* out.

\* let mut process_lock = state.process.lock().unwrap(), in start_simulator.
StartLock(c) ==
    /\ spc[c] = "idle"
    /\ processLock = None
    /\ processLock' = Caller(c)
    /\ spc' = [spc EXCEPT ![c] = "start_check"]
    /\ sres' = [sres EXCEPT ![c] = "none"]
    /\ UNCHANGED <<serialVars, recVars, process, child, spawned, running>>

\* process_lock.is_some(): Err("Simulator is already running. Stop it first.").
StartRejected(c) ==
    /\ spc[c] = "start_check"
    /\ process # None
    /\ spc' = [spc EXCEPT ![c] = "idle"]
    /\ sres' = [sres EXCEPT ![c] = "AlreadyRunning"]
    /\ processLock' = None
    /\ UNCHANGED <<serialVars, recVars, process, child, spawned, running>>

\* Mutant: the check for a tracked child is left out.
StartCheck_Unchecked(c) ==
    /\ spc[c] = "start_check"
    /\ spc' = [spc EXCEPT ![c] = "start_script"]
    /\ UNCHANGED <<serialVars, recVars, process, processLock, sres, child, spawned, running>>

\* No child is tracked: the command goes on to look for the script.
StartCheck(c) ==
    /\ spc[c] = "start_check"
    /\ process = None
    /\ spc' = [spc EXCEPT ![c] = "start_script"]
    /\ UNCHANGED <<serialVars, recVars, process, processLock, sres, child, spawned, running>>

\* std::env::current_dir() fails: Err("Failed to get current directory: ..").
StartNoCurrentDir(c) ==
    /\ spc[c] = "start_script"
    /\ spc' = [spc EXCEPT ![c] = "idle"]
    /\ sres' = [sres EXCEPT ![c] = "NoCurrentDir"]
    /\ processLock' = None
    /\ UNCHANGED <<serialVars, recVars, process, child, spawned, running>>

\* !script_path.exists(): Err("Simulator script not found at: ..").
StartScriptMissing(c) ==
    /\ spc[c] = "start_script"
    /\ spc' = [spc EXCEPT ![c] = "idle"]
    /\ sres' = [sres EXCEPT ![c] = "ScriptNotFound"]
    /\ processLock' = None
    /\ UNCHANGED <<serialVars, recVars, process, child, spawned, running>>

\* The script is there: the python command line is built.
StartScriptFound(c) ==
    /\ spc[c] = "start_script"
    /\ spc' = [spc EXCEPT ![c] = "start_spawn"]
    /\ UNCHANGED <<serialVars, recVars, process, processLock, sres, child, spawned, running>>

\* command.spawn() fails: Err("Failed to start simulator: ..").
StartSpawnFail(c) ==
    /\ spc[c] = "start_spawn"
    /\ spc' = [spc EXCEPT ![c] = "idle"]
    /\ sres' = [sres EXCEPT ![c] = "SpawnFailed"]
    /\ processLock' = None
    /\ UNCHANGED <<serialVars, recVars, process, child, spawned, running>>

\* let child = command.spawn()?: a new child process runs.
StartSpawn(c) ==
    /\ spc[c] = "start_spawn"
    /\ spawned < MaxSpawns
    /\ spawned' = spawned + 1
    /\ child' = [child EXCEPT ![c] = spawned + 1]
    /\ running' = running \cup {spawned + 1}
    /\ spc' = [spc EXCEPT ![c] = "start_store"]
    /\ UNCHANGED <<serialVars, recVars, process, processLock, sres>>

\* *process_lock = Some(child); drop(process_lock); Ok(()).  A Child that is
\* overwritten is dropped, which neither kills nor reaps it.
StartStore(c) ==
    /\ spc[c] = "start_store"
    /\ process' = child[c]
    /\ child' = [child EXCEPT ![c] = None]
    /\ spc' = [spc EXCEPT ![c] = "idle"]
    /\ sres' = [sres EXCEPT ![c] = "StartOk"]
    /\ processLock' = None
    /\ UNCHANGED <<serialVars, recVars, spawned, running>>

\* let mut process_lock = state.process.lock().unwrap(), in stop_simulator.
StopLock(c) ==
    /\ spc[c] = "idle"
    /\ processLock = None
    /\ processLock' = Caller(c)
    /\ spc' = [spc EXCEPT ![c] = "stop_take"]
    /\ sres' = [sres EXCEPT ![c] = "none"]
    /\ UNCHANGED <<serialVars, recVars, process, child, spawned, running>>

\* process_lock.take() is Some(child): child.kill(), child.wait(), both
\* results dropped; Ok(()).
StopKill(c) ==
    /\ spc[c] = "stop_take"
    /\ process # None
    /\ running' = running \ {process}
    /\ process' = None
    /\ spc' = [spc EXCEPT ![c] = "idle"]
    /\ sres' = [sres EXCEPT ![c] = "StopOk"]
    /\ processLock' = None
    /\ UNCHANGED <<serialVars, recVars, child, spawned>>

\* process_lock.take() is None: Ok(()).
StopNothing(c) ==
    /\ spc[c] = "stop_take"
    /\ process = None
    /\ spc' = [spc EXCEPT ![c] = "idle"]
    /\ sres' = [sres EXCEPT ![c] = "StopOk"]
    /\ processLock' = None
    /\ UNCHANGED <<serialVars, recVars, process, child, spawned, running>>

\* let process_lock = state.process.lock().unwrap(), in is_simulator_running.
RunningLock(c) ==
    /\ spc[c] = "idle"
    /\ processLock = None
    /\ processLock' = Caller(c)
    /\ spc' = [spc EXCEPT ![c] = "query"]
    /\ sres' = [sres EXCEPT ![c] = "none"]
    /\ UNCHANGED <<serialVars, recVars, process, child, spawned, running>>

\* Ok(process_lock.is_some()).
is_simulator_running(c) ==
    /\ spc[c] = "query"
    /\ spc' = [spc EXCEPT ![c] = "idle"]
    /\ sres' = [sres EXCEPT ![c] = IF process # None THEN "True" ELSE "False"]
    /\ processLock' = None
    /\ UNCHANGED <<serialVars, recVars, process, child, spawned, running>>

\* pkill -f synthetic_asl_simulator.py: every simulator process is killed;
\* the SimulatorState is not touched.
kill_all_simulators(c) ==
    /\ spc[c] = "idle"
    /\ running' = {}
    /\ sres' = [sres EXCEPT ![c] = "Killed"]
    /\ UNCHANGED <<serialVars, recVars, process, processLock, spc, child, spawned>>

start_simulator(c) ==
    \/ StartLock(c)
    \/ StartRejected(c)
    \/ StartCheck(c)
    \/ StartNoCurrentDir(c)
    \/ StartScriptMissing(c)
    \/ StartScriptFound(c)
    \/ StartSpawnFail(c)
    \/ StartSpawn(c)
    \/ StartStore(c)

stop_simulator(c) ==
    \/ StopLock(c)
    \/ StopKill(c)
    \/ StopNothing(c)

\* The simulator commands arrive on any thread at any time.
NextSim ==
    \/ \E c \in Calls : start_simulator(c)
    \/ \E c \in Calls : stop_simulator(c)
    \/ \E c \in Calls : RunningLock(c) \/ is_simulator_running(c)
    \/ \E c \in Calls : kill_all_simulators(c)

InitSim == InitSerial /\ dev = <<>> /\ NoRecording

SpecSim == InitSim /\ [][NextSim]_vars

\* ------------------------------------------------- the command surface
\* struct SerialState: the fields of the state shared by the commands and the
\* reader task.
SerialState == {"port", "is_connected"}

\* tauri::generate_handler![..]: the commands a caller can invoke.
invoke_handler ==
    {"tts_say", "list_ports", "connect_serial", "disconnect_serial",
     "is_serial_connected", "save_recording", "start_simulator",
     "stop_simulator", "is_simulator_running", "predict_gesture",
     "kill_all_simulators", "debug_buffer"}

\* The commands that take the SerialState.
SerialCommands == {"connect_serial", "disconnect_serial", "is_serial_connected"}

\* ------------------------------------------------------------ claims
\* Steps of one invocation, told by its position.
ConnectStoreStep(c) == cpc[c] = "store" /\ cpc'[c] = "mark"
ConnectMarkStep(c) == cpc[c] = "mark" /\ cpc'[c] = "spawn"
OpenFailStep(c) == cpc[c] = "open" /\ cpc'[c] = "idle"
DisconnectFlagStep(c) == cpc[c] = "idle" /\ cpc'[c] = "release"
DisconnectPortStep(c) == cpc[c] = "release" /\ cpc'[c] = "idle"

\* C1 (as claimed): while a connection is open no connect_serial invocation
\* stores a handle or marks the connection open, whatever the interleaving:
\* of two overlapping invocations at most one gets past the rejection.
C1_OverlappingConnectRejected ==
    [][\A c \in Calls :
         is_connected => ~(ConnectStoreStep(c) \/ ConnectMarkStep(c))]_vars

\* C2: with commands issued one at a time, disconnect_serial always ends with
\* Ok, it returns with the flag false and the handle absent, and when it is
\* called on a disconnected state no step of it changes the flag or the handle.
C2_DisconnectIdempotent ==
    [][\A c \in Calls :
         /\ DisconnectPortStep(c) =>
              cres'[c] = "DisconnectOk" /\ ~is_connected' /\ port' = None
         /\ (DisconnectFlagStep(c) \/ DisconnectPortStep(c))
              /\ ~is_connected /\ port = None
              => UNCHANGED <<port, is_connected>>]_vars

\* C2 witness: one connection was opened, its reader task stopped on the
\* disconnect, and both invocations last returned from disconnect_serial, so
\* one of them ran on a disconnected state.
C2_Witness ==
    /\ opened = 1
    /\ \A c \in Calls : cres[c] = "DisconnectOk"
    /\ wstop[1] = "disconnected"
    /\ ~is_connected /\ port = None

\* C10: with commands issued one at a time, the step on which the open fails
\* changes neither the handle, the flag nor any reader task, the state it
\* leaves is disconnected with no handle, and the invocation is idle again, so
\* that connect_serial can be called anew.
C10_OpenFailureLeavesState ==
    [][\A c \in Calls :
         OpenFailStep(c) =>
            /\ cres'[c] = "DeviceOpenError"
            /\ UNCHANGED <<port, is_connected, wpc, opened>>
            /\ ~is_connected' /\ port' = None
            /\ cpc'[c] = "idle"]_vars

\* C10 witness: an open has failed and a later connect_serial has run: the
\* other invocation returned Ok after it.
C10_Witness ==
    \E c, d \in Calls :
        /\ cres[c] = "DeviceOpenError"
        /\ cres[d] = "ConnectOk"
        /\ opened = 1 /\ is_connected

\* The complete lines of a text, in order: what precedes each line feed.
RECURSIVE CompleteLines(_)
CompleteLines(text) ==
    LET pos == find_newline(text) IN
    IF pos = 0 THEN <<>>
    ELSE <<SubSeq(text, 1, pos - 1)>>
           \o CompleteLines(SubSeq(text, pos + 1, Len(text)))

\* A line without the white space around it.
Trimmed(l) ==
    LET first == {i \in 1..Len(l) : l[i] \notin Whitespace} IN
    IF first = {} THEN <<>>
    ELSE SubSeq(l, CHOOSE i \in first : \A j \in first : i <= j,
                   CHOOSE i \in first : \A j \in first : i >= j)

Commas(l) == Cardinality({i \in 1..Len(l) : l[i] = ","})

\* The fields of a line: the text between consecutive commas.
FieldsOf(l) ==
    LET cut == <<0>> \o SelectSeq([i \in 1..Len(l) |-> IF l[i] = "," THEN i ELSE 0],
                                  LAMBDA i : i # 0) \o <<Len(l) + 1>>
    IN  [k \in 1..(Len(cut) - 1) |-> SubSeq(l, cut[k] + 1, cut[k + 1] - 1)]

IsInteger(f) ==
    LET body == IF f # <<>> /\ Head(f) \in {"-", "+"} THEN Tail(f) ELSE f IN
    body # <<>> /\ \A i \in 1..Len(body) : body[i] \in Digits

Map(f(_), s) == [i \in 1..Len(s) |-> f(s[i])]

\* The trimmed complete lines of a text with exactly n fields.
LinesWithFields(text, n) ==
    SelectSeq(Map(Trimmed, CompleteLines(text)),
              LAMBDA l : l # <<>> /\ Commas(l) = n - 1)

\* C3 (as claimed): every complete line of five integer fields a reader task
\* has received is emitted as one sample carrying those fields in order.
C3_FiveFieldLinesEmitted ==
    \A w \in Workers :
        LET five(l) == Commas(l) = 4 /\ \A k \in 1..5 : IsInteger(FieldsOf(l)[k])
        IN  SelectSeq(LinesWithFields(decoded[w], 5), five)
              = SelectSeq(samples[w], five)

\* C3 (amended): the samples a reader task has emitted are, in order, the
\* complete lines it has received that have exactly six comma-separated
\* fields, each emitted once, as its trimmed text (the fields in field order).
C3_SixFieldLinesEmitted ==
    \A w \in Workers : samples[w] = LinesWithFields(decoded[w], 6)

\* C3 witness: a reader task has received the whole six-field frame and has
\* emitted it as one sample.
C3_Witness ==
    \E w \in Workers :
        /\ samples[w] = <<SubSeq(Frame6, 1, Len(Frame6) - 1)>>
        /\ dev = <<>>
        /\ decoded[w] = Frame6

\* The lines a read completed: those of the text after it beyond those before.
NewLines(w) ==
    LET before == Map(Trimmed, CompleteLines(decoded[w]))
        after == Map(Trimmed, CompleteLines(decoded'[w]))
    IN  SubSeq(after, Len(before) + 1, Len(after))

\* C4 (as claimed): no sample comes from a line with a field that is not an
\* integer or with another field count than the expected one.
C4_NonIntegerLinesDropped ==
    \A w \in Workers : \A i \in 1..Len(samples[w]) :
        /\ Len(FieldsOf(samples[w][i])) = ExpectedFields
        /\ \A k \in 1..Len(FieldsOf(samples[w][i])) :
               IsInteger(FieldsOf(samples[w][i])[k])

\* C4 (amended): a read whose complete lines all have a field count other
\* than six emits no sample, every sample ever emitted has six fields, and a
\* read that delivers data leaves the reader task running, with no error event.
C4_WrongCountLinesDropped ==
    [][\A w \in Workers :
         decoded'[w] # decoded[w] =>
            /\ (\A i \in 1..Len(NewLines(w)) :
                    Len(FieldsOf(NewLines(w)[i])) # ExpectedFields)
                 => samples'[w] = samples[w]
            /\ \A i \in 1..Len(samples'[w]) :
                   Len(FieldsOf(samples'[w][i])) = ExpectedFields
            /\ wpc'[w] = "sleep" /\ wstop'[w] = "none"
            /\ errors'[w] = errors[w]]_vars

\* C4 witness: a reader task has received a whole line, emitted nothing for
\* it, and is still running.
C4_Witness ==
    \E w \in Workers :
        /\ Len(CompleteLines(decoded[w])) = 1
        /\ Commas(decoded[w]) # ExpectedFields - 1
        /\ samples[w] = <<>>
        /\ Alive(w) /\ errors[w] = 0

\* C5 (as claimed): the step on which a reader task stops on a read error
\* leaves the connection disconnected: flag false, handle absent.
C5_ReadErrorDisconnects ==
    [][\A w \in Workers :
         (Alive(w) /\ wpc'[w] = "done" /\ wstop'[w] = "error")
            => (~is_serial_connected' /\ port' = None)]_vars

\* C6 (as claimed): a save_recording call with no samples, all of whose I/O
\* would succeed, ends with InvalidInput and leaves no file at the target path.
C6_EmptyCommitRejected ==
    (result \notin {"idle", "running"} /\ args.samples = <<>> /\ io = "none")
        => (result = "InvalidInput" /\ ~file.exists)

\* C7 (as claimed): a save_recording call that does not succeed returns an
\* error (it does not panic) and leaves no file at the target path.
C7_FailedCommitLeavesNoFile ==
    (result \notin {"idle", "running", "Ok"})
        => (result # "Panic" /\ ~file.exists)

\* v thousandths is clamp((raw - baseline) / (maxbend - baseline), 0, 1) to
\* three decimals, for baseline < maxbend: the ends, the clamp, and between
\* them the thousandth nearest to the quotient.
IsClampedQuotient(v, raw, baseline, maxbend) ==
    /\ v \in 0..1000
    /\ raw <= baseline => v = 0
    /\ raw >= maxbend => v = 1000
    /\ (baseline <= raw /\ raw <= maxbend) =>
          LET e == 2 * (1000 * (raw - baseline) - v * (maxbend - baseline))
          IN  e <= maxbend - baseline /\ 0 - e <= maxbend - baseline

\* C8: for a channel with baseline < max_bend the value written is the
\* clamped quotient to three decimals: 0.000 at and below the baseline, 1.000
\* at and above max_bend, within [0, 1] always, and 0.300 for raw 80,
\* baseline 50, max_bend 150.
C8_NormalizedIsClampedQuotient ==
    (norm_out # NoValue /\ chan.baseline < chan.maxbend) =>
        /\ IsClampedQuotient(norm_out, chan.raw, chan.baseline, chan.maxbend)
        /\ chan = [raw |-> 80, baseline |-> 50, maxbend |-> 150] => norm_out = 300

\* C8 witness: the documented example has been normalized.
C8_Witness ==
    chan = [raw |-> 80, baseline |-> 50, maxbend |-> 150] /\ norm_out = 300

\* C9: with both calibration sequences complete, a call never panics, it
\* succeeds with one row per sample when no I/O step fails, and in every row
\* written a channel with max_bend <= baseline has 0.000 whatever its raw
\* value, while every other channel has the clamped quotient of its own raw
\* value and calibration.
C9_DegenerateChannelZero ==
    (result \notin {"idle", "running"}
        /\ Len(args.baseline) >= NumCh /\ Len(args.maxbend) >= NumCh) =>
        /\ result # "Panic"
        /\ io = "none" => (result = "Ok" /\ Len(file.rows) = Len(args.samples))
        /\ \A k \in 1..Len(file.rows) : \A i \in 1..NumCh :
              /\ file.rows[k].raw[i] = args.samples[k].ch[i]
              /\ IF args.maxbend[i] <= args.baseline[i]
                 THEN file.rows[k].norm[i] = 0
                 ELSE IsClampedQuotient(file.rows[k].norm[i], args.samples[k].ch[i],
                                        args.baseline[i], args.maxbend[i])

\* C9 witness: a call succeeded whose first row has a degenerate channel with
\* a raw value above its baseline, written 0.000, an inverted one, and a
\* regular channel written 0.500.
C9_Witness ==
    /\ result = "Ok" /\ Len(file.rows) >= 1
    /\ \E i, j, k \in 1..NumCh :
          /\ args.maxbend[i] = args.baseline[i]
          /\ args.samples[1].ch[i] > args.baseline[i]
          /\ file.rows[1].norm[i] = 0
          /\ args.maxbend[k] < args.baseline[k]
          /\ file.rows[1].norm[j] = 500

\* C11 (as claimed): while a connection is open the caller is offered a pause
\* and a resume command on it, and the connection state has a reading_active
\* field for them to toggle, which is true only while connected.
C11_PauseResumeOffered ==
    is_connected =>
        /\ "reading_active" \in SerialState
        /\ \E pause, resume \in
               (invoke_handler \cap SerialCommands)
                   \ {"connect_serial", "disconnect_serial", "is_serial_connected"} :
               pause # resume

\* C12 (as claimed): at most one reader task is alive (spawned and not yet
\* out of its loop) in every reachable state.
C12_AtMostOneWorker ==
    Cardinality({w \in Workers : Alive(w)}) <= 1

\* C13 (as claimed): every reader task that is running when a
\* disconnect_serial returns eventually leaves its loop, whatever commands
\* follow.
C13_OrphanedWorkerTerminates ==
    \A w \in Workers : (w \in orphaned) ~> ~Alive(w)

\* Reader task w calls port.read on the handle in the state (whatever the
\* read returns).
ReadsDevice(w) == wpc[w] = "read" /\ wpc'[w] # "read" /\ port # None

\* C14 (as claimed): once disconnect_serial has released the handle a
\* connect_serial opened, the reader task that connect_serial spawned calls
\* read on no handle: not on that one and not on one opened later.
C14_NoReadAfterRelease ==
    [][\A w \in Workers : w \in released => ~ReadsDevice(w)]_vars

\* C15 (as claimed): no thread holds a mutex of the connection state while it
\* is inside the device read, the device open or the sleep, and a
\* disconnect_serial at its port.lock() never finds the mutex held by a reader
\* task.
C15_NoLockAcrossBlockingCall ==
    /\ \A w \in Workers :
          (wpc[w] = "sleep" \/ (wpc[w] = "read" /\ port # None))
              => (portLock # w /\ flagLock # w)
    /\ \A c \in Calls :
          cpc[c] = "open" => (portLock # Caller(c) /\ flagLock # Caller(c))
    /\ \A c \in Calls : cpc[c] = "release" => portLock \notin Workers

\* C15 (amended): no mutex is held across the device open or the sleep, and
\* the flag mutex is held across no blocking call at all; the port mutex is
\* held by a reader task exactly while it is at its read, and by a command
\* only at its one statement under it, so that a disconnect_serial at its
\* port.lock() waits for nothing but a statement or a read in progress, which
\* returns (data, the 100 ms timeout, or an error).
C15_PortLockHeldAcrossReadOnly ==
    /\ \A w \in Workers :
          /\ wpc[w] = "sleep" => (portLock # w /\ flagLock # w)
          /\ wpc[w] = "read" <=> portLock = w
          /\ flagLock = w => wpc[w] = "check"
    /\ \A c \in Calls :
          /\ cpc[c] = "open" => (portLock # Caller(c) /\ flagLock # Caller(c))
          /\ portLock = Caller(c) => cpc[c] \in {"store", "release"}
          /\ flagLock = Caller(c) => cpc[c] \in {"idle", "mark"}
          /\ (cpc[c] = "release" /\ portLock \in Workers)
                => ENABLED WorkerReadTimeout(portLock)
                     \/ ENABLED WorkerReadAbsent(portLock)

\* C15 witness: a disconnect_serial is at its port.lock() while the reader
\* task is inside port.read with the port mutex held.
C15_Witness ==
    \E c \in Calls, w \in Workers :
        /\ cpc[c] = "release"
        /\ portLock = w /\ wpc[w] = "read" /\ port # None

\* What a reader task with an empty buffer makes of bytes that arrive in one
\* read: the samples it emits and the partial line it keeps.
SingleRead(bytes) == process_lines(from_utf8_lossy(bytes), <<>>)

\* C16 (as claimed): whatever the device sends and however the bytes are
\* split into reads, a reader task has emitted the samples it would have
\* emitted had all the bytes arrived in one read.
C16_ChunkingInvariant ==
    \A w \in Workers : samples[w] = SingleRead(received[w]).emitted

\* C16 (amended): the same whenever no read has ended inside a multi-byte
\* character, which is when the text decoded read by read is the text of all
\* the bytes (always so for ASCII); the partial line kept is then the same
\* too.  In any case as many samples have been emitted as in one read.
C16_ChunkingInvariantUnsplit ==
    \A w \in Workers :
        /\ Len(samples[w]) = Len(SingleRead(received[w]).emitted)
        /\ decoded[w] = from_utf8_lossy(received[w]) =>
              /\ samples[w] = SingleRead(received[w]).emitted
              /\ buffer[w] = SingleRead(received[w]).buffer

\* C16 witness: the padded frame has arrived whole in two reads or more, so
\* one of them ended before its last line feed, and it was emitted once.
C16_Witness ==
    \E w \in Workers :
        /\ received[w] = Frame6Padded /\ nreads[w] >= 2
        /\ samples[w] = <<trim(SubSeq(Frame6Padded, 2, Len(Frame6Padded) - 1))>>
        /\ buffer[w] = <<>>

\* C17: a reader task emits "serial-error" at most once; it does so only on
\* the step on which its port.read returns an error that is no timeout, which
\* takes it out of its loop without a sample; and once it has emitted it the
\* task reads no more, emits no more and stays out of its loop.
C17_ErrorOnceThenSilent ==
    [][\A w \in Workers :
         /\ errors'[w] <= 1
         /\ errors'[w] # errors[w] =>
               /\ ReadsDevice(w) /\ wpc'[w] = "done" /\ wstop'[w] = "error"
               /\ samples'[w] = samples[w] /\ received'[w] = received[w]
         /\ (ReadsDevice(w) /\ wpc'[w] = "sleep") => errors'[w] = errors[w]
         /\ errors[w] >= 1 =>
               /\ wpc[w] = "done" /\ wpc'[w] = "done"
               /\ samples'[w] = samples[w] /\ received'[w] = received[w]]_vars

\* C17 witness: a reader task that had read data stopped on a read error, and
\* a connect_serial made after it has spawned another task, which runs.
C17_Witness ==
    \E w, v \in Workers :
        /\ errors[w] = 1 /\ wstop[w] = "error" /\ nreads[w] >= 1
        /\ w < v /\ Alive(v)

\* C18: a port.read that returns no bytes and is not the error exit (a
\* timeout) emits no sample and no error event, leaves the task's buffer, the
\* flag and the handle as they were, and leaves the task in its loop, at the
\* sleep before its next iteration; so no run of timeouts stops the task.
C18_TimeoutIsNoOp ==
    [][\A w \in Workers :
         (ReadsDevice(w) /\ dev' = dev /\ errors'[w] = errors[w]) =>
            /\ wpc'[w] = "sleep" /\ wstop'[w] = wstop[w]
            /\ UNCHANGED <<is_connected, port, errors, samples, buffer>>]_vars

\* C18 witness: the first read of a reader task timed out with bytes still to
\* come (the handle has been in place since before the task was spawned), and
\* the task is at its sleep, running.
C18_Witness ==
    \E w \in Workers :
        /\ wpc[w] = "sleep" /\ nreads[w] = 0 /\ errors[w] = 0
        /\ port = w /\ released = {} /\ opened = w /\ is_connected
        /\ dev # <<>>

\* C19 (as claimed): in every reachable state, whenever is_serial_connected
\* would report true a handle is stored.
C19_ConnectedImpliesHandle ==
    is_serial_connected => port # None

\* No thread holds both mutexes.
NeverBothLocks ==
    /\ \A c \in Calls : ~(flagLock = Caller(c) /\ portLock = Caller(c))
    /\ \A w \in Workers : ~(flagLock = w /\ portLock = w)

\* No thread is blocked for good: whoever holds a mutex can take a step, and
\* a command in progress or a running reader task that cannot take a step is
\* at a lock() on a mutex that another thread holds.
NoThreadStuck ==
    /\ \A c \in Calls :
          /\ (flagLock = Caller(c) \/ portLock = Caller(c)) => ENABLED CallerRun(c)
          /\ (Started(c) /\ ~ENABLED CallerRun(c)) =>
                \/ cpc[c] \in {"store", "release"}
                      /\ portLock \notin {None, Caller(c)}
                \/ cpc[c] = "mark" /\ flagLock \notin {None, Caller(c)}
    /\ \A w \in Workers :
          /\ (flagLock = w \/ portLock = w) => ENABLED ReaderRun(w)
          /\ (Alive(w) /\ ~ENABLED ReaderRun(w)) =>
                \/ wpc[w] = "lock" /\ portLock \notin {None, w}
                \/ wpc[w] = "check" /\ flagLock \notin {None, w}

\* C20: no thread ever holds the port mutex and the flag mutex at once, no
\* thread is ever blocked for good, and every command that has begun
\* (connect_serial, disconnect_serial, is_serial_connected) returns.
C20_NoDeadlockCallsReturn ==
    /\ [](NeverBothLocks /\ NoThreadStuck)
    /\ \A c \in Calls : Started(c) ~> ~Started(c)

\* C20 witness: a disconnect_serial waits at its port.lock() for the reader
\* task, which is inside its read, while another command holds the flag mutex.
C20_Witness ==
    \E c, d \in Calls, w \in Workers :
        /\ cpc[c] = "release" /\ portLock = w /\ wpc[w] = "read"
        /\ ~ENABLED CallerRun(c)
        /\ flagLock = Caller(d)

\* ---------------------------------------------------------------- C21
\* C21: every sample a reader task emits is assembled only from bytes read
\* through the device handle of the connect_serial call that spawned it; in
\* particular no sample joins bytes a previous connection left in a buffer
\* to bytes of a later connection.  (Reader task w is the one spawned by the
\* call that opened handle w.)
C21_SamplesFromOwnHandle ==
    \A w \in Workers : \A i \in 1..Len(samples_from[w]) :
        samples_from[w][i] \subseteq {w}

\* The weaker half: no sample joins bytes of two handles.
C21_NoSampleAcrossConnections ==
    \A w \in Workers : \A i \in 1..Len(samples_from[w]) :
        Cardinality(samples_from[w][i]) <= 1

\* The half that holds: a task starts on an empty buffer.
C21_BufferStartsEmpty ==
    [][\A c \in Calls : ConnectSpawn(c) => buffer'[chandle[c]] = <<>>]_vars

\* ---------------------------------------------------------------- C22
\* An invocation returns on this step.
SimReturns(c) == spc[c] # "idle" /\ spc'[c] = "idle"

InStart(c) == spc[c] \in {"start_check", "start_script", "start_spawn", "start_store"}

StartFailures == {"NoCurrentDir", "ScriptNotFound", "SpawnFailed"}

\* The children the state accounts for: the tracked one, and the one a
\* start_simulator has spawned and is about to store, the mutex still held.
Tracked == ({process} \cup {child[c] : c \in Calls}) \ {None}

\* At most one child is tracked, and no other child runs.
AtMostOneTracked ==
    /\ Cardinality(Tracked) <= 1
    /\ running \subseteq Tracked

\* start_simulator with a child tracked: an error, the tracked child unchanged.
StartWhileTracked(c) ==
    SimReturns(c) /\ InStart(c) /\ process # None
        => sres'[c] = "AlreadyRunning" /\ process' = process /\ running' = running

\* A start that fails leaves no child tracked and none spawned.
FailedStartLeavesEmpty(c) ==
    SimReturns(c) /\ InStart(c) /\ sres'[c] \in StartFailures
        => process' = None /\ running' = running /\ spawned' = spawned

\* stop_simulator returns Ok with no child tracked, and with none tracked
\* before it changes nothing.
StopSucceeds(c) ==
    SimReturns(c) /\ spc[c] = "stop_take"
        => /\ sres'[c] = "StopOk"
           /\ process' = None
           /\ process = None => running' = running

\* is_simulator_running answers true exactly when a child is tracked.
RunningIffTracked(c) ==
    SimReturns(c) /\ spc[c] = "query"
        => /\ sres'[c] = "True" <=> process # None
           /\ sres'[c] \in {"True", "False"}
           /\ process' = process

\* C22: under any interleaving of the simulator commands at most one child
\* process is tracked; start_simulator with a child tracked returns an error
\* and leaves the tracked child unchanged; a start that fails (no script, no
\* spawn) leaves the state empty; stop_simulator always succeeds and is
\* idempotent; is_simulator_running returns true exactly when a child is
\* tracked.
C22_AtMostOneSimulator ==
    /\ []AtMostOneTracked
    /\ [][\A c \in Calls : /\ StartWhileTracked(c)
                           /\ FailedStartLeavesEmpty(c)
                           /\ StopSucceeds(c)
                           /\ RunningIffTracked(c)]_vars

\* A second child is tracked after a stop, one invocation was refused a
\* start and another was answered true.
C22_Witness ==
    \E c, d \in Calls :
        /\ sres[c] = "AlreadyRunning"
        /\ sres[d] = "True"
        /\ process # None
        /\ spawned >= 2

====
